---- MODULE Spec2Model ----
(***************************************************************************)
(* Freelance marketplace REST backend (login.js + server.js).             *)
(*                                                                         *)
(* The state is the three relational tables (users, jobs, messages), the  *)
(* external collaborators (avatar storage, outbound mail), the wall clock, *)
(* the tokens that login has handed out, and the requests that are        *)
(* suspended at an `await`.  Every handler is cut at its database calls:  *)
(* the synchronous code before a query (token check, role gate) belongs   *)
(* to the step of that query, the code after the last query (response)    *)
(* to the step of the last query.  The database is assumed available      *)
(* (no query throws), so the catch-all 500 branches are reached only by   *)
(* the avatar upload, whose failure is modelled.                          *)
(* Payload columns that no branch reads (name, title, description,        *)
(* budget, content) are left out.                                         *)
(***************************************************************************)
EXTENDS Integers, Sequences, FiniteSets

VARIABLES users, jobs, messages, uploads, outbox, now, issued, reqs, last

vars == <<users, jobs, messages, uploads, outbox, now, issued, reqs, last>>

----------------------------------------------------------------------------
(* Bounds of the model *)

MaxUsers == 2
MaxJobs == 2
MaxMsgs == 2
MaxTokens == 2
MaxUploads == 1
MaxInflight == 2
MaxTicks == 2
ClockStep == 12

(* Program constants *)

ExpiresIn == 24
NULL == 0
NullStr == "NULL"
Undefined == "undefined"
JWT_SECRET == "JWT_SECRET"
OtherSecret == "other-secret"

(* Inputs that requests are drawn from *)

Emails == {"a@x", "b@x"}
Passwords == {"pw1", "pw2"}
Salts == {"salt1"}
RoleInputs == {Undefined, "", "client", "freelancer"}
BioInputs == {Undefined, "", "bio1"}
FileInputs == {Undefined, "file1"}

Slots == DOMAIN reqs
JobIds == 1..MaxJobs

----------------------------------------------------------------------------
(* Pure helpers *)

\* JavaScript truthiness of a string-or-undefined value (role ? role : ...)
Truthy(v) == v /= Undefined /\ v /= "" /\ v /= NullStr

\* bcrypt.hash(password, 10): a fresh salt and the digest of salt and password
BcryptHash(password, salt) == [salt |-> salt, digest |-> <<salt, password>>]

\* bcrypt.compare(password, hash): re-hash with the stored salt
BcryptCompare(password, hash) == BcryptHash(password, hash.salt) = hash

\* jwt.sign({id, role}, secret, {expiresIn: '24h'})
JwtSign(id, role, secret, t) ==
    [id |-> id, role |-> role, iat |-> t, exp |-> t + ExpiresIn, key |-> secret]

\* (variant: the expiry of the token is not looked at)
JwtVerifyIgnoresExpiry(token, secret, t) == token.key = secret

\* jwt.verify(token, secret): signature matches and the token has not expired
JwtVerify(token, secret, t) == token.key = secret /\ t < token.exp

NoUser == [id |-> NULL, role |-> NullStr]

\* authenticateToken: the header split at the blank, the second part verified
AuthenticateToken(header, t) ==
    IF Len(header) < 2
    THEN [status |-> 401, error |-> "Acesso negado", user |-> NoUser]
    ELSE IF ~JwtVerify(header[2], JWT_SECRET, t)
         THEN [status |-> 403, error |-> "Token invalido", user |-> NoUser]
         ELSE [status |-> 200, error |-> "",
               user |-> [id |-> header[2].id, role |-> header[2].role]]

\* SELECT * FROM users WHERE email = ?   (ids of the rows, in table order)
SelectUsersByEmail(tbl, email) == {i \in 1..Len(tbl) : tbl[i].email = email}

\* (variant: the status condition left out of the WHERE clause)
SelectOpenJobAnyStatus(tbl, jobId) == {j \in 1..Len(tbl) : j = jobId}

\* SELECT * FROM jobs WHERE id = ? AND status = "open"
SelectOpenJob(tbl, jobId) ==
    {j \in 1..Len(tbl) : j = jobId /\ tbl[j].status = "open"}

\* SELECT * FROM jobs WHERE id = ? AND (client_id = ? OR freelancer_id = ?)
SelectJobOfParticipant(tbl, jobId, uid) ==
    {j \in 1..Len(tbl) :
        j = jobId /\ (tbl[j].client_id = uid \/ tbl[j].freelancer_id = uid)}

\* (variant: the WHERE clause left out)
SelectAllJobsJoinUsers(jtbl, utbl) ==
    {j \in 1..Len(jtbl) : jtbl[j].client_id \in 1..Len(utbl)}

\* SELECT jobs.* FROM jobs JOIN users ON jobs.client_id = users.id
\* WHERE status = 'open'
SelectOpenJobsJoinUsers(jtbl, utbl) ==
    {j \in 1..Len(jtbl) :
        jtbl[j].status = "open" /\ jtbl[j].client_id \in 1..Len(utbl)}

\* Column defaults of the jobs table (the schema is not part of the sources)
JobDefaults == [status |-> "open", freelancer_id |-> NULL]

\* Row that INSERT INTO jobs (client_id, title, description, budget) stores:
\* the columns it does not name take their defaults
NewJobRow(client_id) ==
    [client_id |-> client_id, status |-> JobDefaults.status,
     freelancer_id |-> JobDefaults.freelancer_id]

\* Row that INSERT INTO users (name, email, password, role) stores
NewUserRow(email, hash, role) ==
    [email |-> email, password |-> hash, role |-> role,
     bio |-> NullStr, avatar_url |-> NULL]

----------------------------------------------------------------------------
(* Requests and responses *)

Idle ==
    [kind |-> "idle", pc |-> "idle", uid |-> NULL, jobId |-> NULL, aux |-> NULL,
     email |-> NullStr, hash |-> BcryptHash(NullStr, NullStr), role |-> NullStr,
     bio |-> NullStr]

NoBody == <<>>

\* A response, with the caller (when authenticated) and the job it is about
Resp(kind, status, text, body, uid, jobId) ==
    [kind |-> kind, status |-> status, text |-> text, body |-> body,
     uid |-> uid, jobId |-> jobId]

NoResp == Resp("none", 0, "", NoBody, NULL, NULL)

FreeSlot(s) ==
    /\ reqs[s].pc = "idle"
    /\ \A t \in Slots : t < s => reqs[t].pc /= "idle"

Finish(s, r) ==
    /\ reqs' = [reqs EXCEPT ![s] = Idle]
    /\ last' = r

\* Tokens an attacker can make without the server secret
ForgedTokens(t) == {JwtSign(1, "client", OtherSecret, t)}

\* Authorization headers a request can carry
Headers ==
    {<<>>, <<"Bearer">>}
        \cup {<<"Bearer", tok>> : tok \in issued \cup ForgedTokens(now)}

----------------------------------------------------------------------------
Init ==
    /\ users = <<>>
    /\ jobs = <<>>
    /\ messages = <<>>
    /\ uploads = 0
    /\ outbox = {}
    /\ now = 0
    /\ issued = {}
    /\ reqs = [s \in 1..MaxInflight |-> Idle]
    /\ last = NoResp

Tick ==
    /\ now < MaxTicks * ClockStep
    /\ now' = now + ClockStep
    /\ UNCHANGED <<users, jobs, messages, uploads, outbox, issued, reqs, last>>

----------------------------------------------------------------------------
(* login.js: POST /auth/register *)

\* const userRole = role ? role : 'freelancer'
UserRole(role) == IF Truthy(role) THEN role ELSE "freelancer"

\* Registrations suspended between the existence check and the INSERT
PendingRegisters == {t \in Slots : reqs[t].kind = "register"}

\* Step 1: SELECT by email; 400 when a row exists, else hash the password
RegisterCheck(s, email, password, role, salt) ==
    /\ FreeSlot(s)
    /\ IF SelectUsersByEmail(users, email) /= {}
       THEN /\ last' = Resp("register", 400, "Email ja cadastrado", NoBody, NULL, NULL)
            /\ UNCHANGED reqs
       ELSE /\ Len(users) + Cardinality(PendingRegisters) < MaxUsers
            /\ reqs' = [reqs EXCEPT ![s] =
                          [Idle EXCEPT !.kind = "register", !.pc = "insert",
                                       !.email = email,
                                       !.hash = BcryptHash(password, salt),
                                       !.role = UserRole(role)]]
            /\ UNCHANGED last
    /\ UNCHANGED <<users, jobs, messages, uploads, outbox, now, issued>>

\* (variant: sendEmailBrevo without its try/catch, a failed send rejects)
SendEmailBrevoRethrows(sent) ==
    [settled |-> IF sent THEN "resolved" ELSE "rejected",
     value |-> IF sent THEN "data" ELSE Undefined]

\* sendEmailBrevo: the post to the mail service inside try/catch; a failure
\* is logged and the promise resolves with undefined
SendEmailBrevo(sent) ==
    [settled |-> "resolved", value |-> IF sent THEN "data" ELSE Undefined]

\* Step 2: INSERT INTO users, then the welcome mail, then 201 with the insert
\* id; a rejected await would end in the catch-all 500
RegisterInsert(s, sent) ==
    /\ reqs[s].kind = "register" /\ reqs[s].pc = "insert"
    /\ users' = Append(users, NewUserRow(reqs[s].email, reqs[s].hash, reqs[s].role))
    /\ outbox' = IF sent THEN outbox \cup {reqs[s].email} ELSE outbox
    /\ Finish(s, IF SendEmailBrevo(sent).settled = "rejected"
                 THEN Resp("register", 500, "Erro no servidor durante o registro",
                           NoBody, NULL, NULL)
                 ELSE Resp("register", 201, "", NoBody, NULL, NULL))
    /\ UNCHANGED <<jobs, messages, uploads, now, issued>>

----------------------------------------------------------------------------
(* login.js: POST /auth/login *)

\* (variant: the password comparison left out)
LoginResultNoPasswordCheck(email, password, id, t) ==
    IF SelectUsersByEmail(users, email) = {}
    THEN Resp("login", 400, "Usuario nao encontrado", NoBody, NULL, NULL)
    ELSE Resp("login", 200, "", JwtSign(id, users[id].role, JWT_SECRET, t), NULL, NULL)

\* The outcome of login for the row `id` that the SELECT put first
LoginResult(email, password, id, t) ==
    IF SelectUsersByEmail(users, email) = {}
    THEN Resp("login", 400, "Usuario nao encontrado", NoBody, NULL, NULL)
    ELSE IF ~BcryptCompare(password, users[id].password)
         THEN Resp("login", 400, "Senha incorreta", NoBody, NULL, NULL)
         ELSE Resp("login", 200, "", JwtSign(id, users[id].role, JWT_SECRET, t), NULL, NULL)

\* SELECT by email, users[0], bcrypt.compare, jwt.sign
Login(email, password, id) ==
    /\ id \in SelectUsersByEmail(users, email) \cup
              (IF SelectUsersByEmail(users, email) = {} THEN {NULL} ELSE {})
    /\ last' = LoginResult(email, password, id, now)
    /\ issued' = IF last'.status = 200 THEN issued \cup {last'.body} ELSE issued
    /\ Cardinality(issued') <= MaxTokens
    /\ UNCHANGED <<users, jobs, messages, uploads, outbox, now, reqs>>

----------------------------------------------------------------------------
(* server.js: POST /jobs, GET /jobs *)

\* (variant: the role gate left out)
CreateJobGateMissing(user) == user.id /= NULL

\* if (req.user.role !== 'client') return 403
CreateJobGate(user) == user.role = "client"

CreateJob(header) ==
    LET auth == AuthenticateToken(header, now) IN
    /\ IF auth.status /= 200
       THEN /\ last' = Resp("createJob", auth.status, auth.error, NoBody, auth.user.id, NULL)
            /\ UNCHANGED jobs
       ELSE IF ~CreateJobGate(auth.user)
            THEN /\ last' = Resp("createJob", 403,
                                 "Apenas clientes podem postar jobs", NoBody, auth.user.id, NULL)
                 /\ UNCHANGED jobs
            ELSE /\ Len(jobs) < MaxJobs
                 /\ jobs' = Append(jobs, NewJobRow(auth.user.id))
                 /\ last' = Resp("createJob", 201, "", NoBody, auth.user.id, Len(jobs) + 1)
    /\ UNCHANGED <<users, messages, uploads, outbox, now, issued, reqs>>

ListOpenJobs ==
    /\ last' = Resp("listJobs", 200, "", SelectOpenJobsJoinUsers(jobs, users), NULL, NULL)
    /\ UNCHANGED <<users, jobs, messages, uploads, outbox, now, issued, reqs>>

----------------------------------------------------------------------------
(* server.js: POST /jobs/:id/hire *)

\* if (req.user.role !== 'freelancer') return 403
HireGate(user) == user.role = "freelancer"

\* (variant: the UPDATE sets freelancer_id and forgets the status)
UpdateJobHireKeepsStatus(tbl, jobId, freelancerId) ==
    [j \in 1..Len(tbl) |->
        IF j = jobId THEN [tbl[j] EXCEPT !.freelancer_id = freelancerId] ELSE tbl[j]]

\* UPDATE jobs SET freelancer_id = ?, status = "in_progress" WHERE id = ?
UpdateJobHire(tbl, jobId, freelancerId) ==
    [j \in 1..Len(tbl) |->
        IF j = jobId
        THEN [tbl[j] EXCEPT !.freelancer_id = freelancerId, !.status = "in_progress"]
        ELSE tbl[j]]

\* Step 1: token, role gate, SELECT the job if it is open
HireCheck(s, header, jobId) ==
    LET auth == AuthenticateToken(header, now) IN
    /\ FreeSlot(s)
    /\ IF auth.status /= 200
       THEN /\ last' = Resp("hire", auth.status, auth.error, NoBody, auth.user.id, jobId)
            /\ UNCHANGED reqs
       ELSE IF ~HireGate(auth.user)
            THEN /\ last' = Resp("hire", 403,
                                 "Apenas freelancers podem aceitar jobs", NoBody, auth.user.id, jobId)
                 /\ UNCHANGED reqs
            ELSE IF SelectOpenJob(jobs, jobId) = {}
                 THEN /\ last' = Resp("hire", 404, "Job nao disponivel", NoBody, auth.user.id, jobId)
                      /\ UNCHANGED reqs
                 ELSE /\ reqs' = [reqs EXCEPT ![s] =
                                    [Idle EXCEPT !.kind = "hire", !.pc = "update",
                                                 !.uid = auth.user.id,
                                                 !.jobId = jobId]]
                      /\ UNCHANGED last
    /\ UNCHANGED <<users, jobs, messages, uploads, outbox, now, issued>>

\* Step 2: the UPDATE, then the success response
HireUpdate(s) ==
    /\ reqs[s].kind = "hire" /\ reqs[s].pc = "update"
    /\ jobs' = UpdateJobHire(jobs, reqs[s].jobId, reqs[s].uid)
    /\ Finish(s, Resp("hire", 200, "", NoBody, reqs[s].uid, reqs[s].jobId))
    /\ UNCHANGED <<users, messages, uploads, outbox, now, issued>>

\* Step 2 in the earlier version of the route: the UPDATE, the SELECT of the
\* client's address, the mail to the client, then the success response; a
\* missing client row or a rejected await would end in the catch-all 500
HireUpdateEarlier(s, sent) ==
    LET clientId == jobs[reqs[s].jobId].client_id
        found == clientId \in 1..Len(users)
    IN
    /\ reqs[s].kind = "hire" /\ reqs[s].pc = "update"
    /\ jobs' = UpdateJobHire(jobs, reqs[s].jobId, reqs[s].uid)
    /\ outbox' = IF found /\ sent THEN outbox \cup {users[clientId].email} ELSE outbox
    /\ Finish(s, IF ~found \/ SendEmailBrevo(sent).settled = "rejected"
                 THEN Resp("hire", 500, "Erro ao processar contratacao", NoBody,
                           reqs[s].uid, reqs[s].jobId)
                 ELSE Resp("hire", 200, "", NoBody, reqs[s].uid, reqs[s].jobId))
    /\ UNCHANGED <<users, messages, uploads, now, issued>>

----------------------------------------------------------------------------
(* server.js: POST /messages *)

\* const finalReceiverId = (senderId === job[0].client_id)
\*                            ? job[0].freelancer_id : job[0].client_id
FinalReceiverId(job, senderId) ==
    IF senderId = job.client_id THEN job.freelancer_id ELSE job.client_id

\* Row that INSERT INTO messages (job_id, sender_id, receiver_id, content)
\* stores; created_at is the time of the insert
NewMessageRow(jobId, senderId, receiverId, t) ==
    [job_id |-> jobId, sender_id |-> senderId, receiver_id |-> receiverId,
     created_at |-> t]

\* Sends suspended between the permission check and the INSERT
PendingSends == {t \in Slots : reqs[t].kind = "sendMessage"}

\* (variant: the earlier version of the route, which computes the receiver
\* and inserts without looking at it)
SendMessageCheckEarlier(s, header, jobId) ==
    LET auth == AuthenticateToken(header, now)
        rows == SelectJobOfParticipant(jobs, jobId, auth.user.id)
    IN
    /\ FreeSlot(s)
    /\ IF auth.status /= 200
       THEN /\ last' = Resp("sendMessage", auth.status, auth.error, NoBody, auth.user.id, jobId)
            /\ UNCHANGED reqs
       ELSE IF rows = {}
            THEN /\ last' = Resp("sendMessage", 403, "Permissao negada", NoBody, auth.user.id, jobId)
                 /\ UNCHANGED reqs
            ELSE /\ Len(messages) + Cardinality(PendingSends) < MaxMsgs
                 /\ reqs' = [reqs EXCEPT ![s] =
                               [Idle EXCEPT !.kind = "sendMessage",
                                            !.pc = "insert",
                                            !.uid = auth.user.id,
                                            !.jobId = jobId,
                                            !.aux = FinalReceiverId(jobs[jobId],
                                                                    auth.user.id)]]
                 /\ UNCHANGED last
    /\ UNCHANGED <<users, jobs, messages, uploads, outbox, now, issued>>

\* Step 1: token, SELECT the job if the sender takes part in it, receiver
SendMessageCheck(s, header, jobId) ==
    LET auth == AuthenticateToken(header, now)
        rows == SelectJobOfParticipant(jobs, jobId, auth.user.id)
    IN
    /\ FreeSlot(s)
    /\ IF auth.status /= 200
       THEN /\ last' = Resp("sendMessage", auth.status, auth.error, NoBody, auth.user.id, jobId)
            /\ UNCHANGED reqs
       ELSE IF rows = {}
            THEN /\ last' = Resp("sendMessage", 403, "Permissao negada", NoBody, auth.user.id, jobId)
                 /\ UNCHANGED reqs
            ELSE IF FinalReceiverId(jobs[jobId], auth.user.id) = NULL
                 THEN /\ last' = Resp("sendMessage", 400,
                                      "O job ainda nao foi aceito por um freelancer.",
                                      NoBody, auth.user.id, jobId)
                      /\ UNCHANGED reqs
                 ELSE /\ Len(messages) + Cardinality(PendingSends) < MaxMsgs
                      /\ reqs' = [reqs EXCEPT ![s] =
                                    [Idle EXCEPT !.kind = "sendMessage",
                                                 !.pc = "insert",
                                                 !.uid = auth.user.id,
                                                 !.jobId = jobId,
                                                 !.aux = FinalReceiverId(jobs[jobId],
                                                                         auth.user.id)]]
                      /\ UNCHANGED last
    /\ UNCHANGED <<users, jobs, messages, uploads, outbox, now, issued>>

\* Step 2: the INSERT, then 201
SendMessageInsert(s) ==
    /\ reqs[s].kind = "sendMessage" /\ reqs[s].pc = "insert"
    /\ messages' = Append(messages,
                          NewMessageRow(reqs[s].jobId, reqs[s].uid, reqs[s].aux, now))
    /\ Finish(s, Resp("sendMessage", 201, "", NoBody, reqs[s].uid, reqs[s].jobId))
    /\ UNCHANGED <<users, jobs, uploads, outbox, now, issued>>

----------------------------------------------------------------------------
(* server.js: GET /messages/:jobId *)

\* (variant: the job condition left out of the WHERE clause)
SelectMessagesOfAnyJob(mtbl, utbl, jobId) ==
    {m \in 1..Len(mtbl) : mtbl[m].sender_id \in 1..Len(utbl)}

\* SELECT messages.* FROM messages JOIN users u ON messages.sender_id = u.id
\* WHERE job_id = ?
SelectMessagesOfJob(mtbl, utbl, jobId) ==
    {m \in 1..Len(mtbl) :
        mtbl[m].job_id = jobId /\ mtbl[m].sender_id \in 1..Len(utbl)}

\* ORDER BY created_at ASC: every listing of the rows by non-decreasing
\* created_at (the order among equal timestamps is the database's choice)
OrderByCreatedAt(mtbl, ids) ==
    {q \in [1..Cardinality(ids) -> ids] :
        /\ \A i, k \in 1..Cardinality(ids) : i /= k => q[i] /= q[k]
        /\ \A i, k \in 1..Cardinality(ids) :
              i < k => mtbl[q[i]].created_at <= mtbl[q[k]].created_at}

\* Step 1: token, SELECT the job if the caller takes part in it
ListMessagesCheck(s, header, jobId) ==
    LET auth == AuthenticateToken(header, now)
        rows == SelectJobOfParticipant(jobs, jobId, auth.user.id)
    IN
    /\ FreeSlot(s)
    /\ IF auth.status /= 200
       THEN /\ last' = Resp("listMessages", auth.status, auth.error, NoBody, auth.user.id, jobId)
            /\ UNCHANGED reqs
       ELSE IF rows = {}
            THEN /\ last' = Resp("listMessages", 403, "Acesso negado", NoBody, auth.user.id, jobId)
                 /\ UNCHANGED reqs
            ELSE /\ reqs' = [reqs EXCEPT ![s] =
                               [Idle EXCEPT !.kind = "listMessages", !.pc = "read",
                                            !.uid = auth.user.id, !.jobId = jobId]]
                 /\ UNCHANGED last
    /\ UNCHANGED <<users, jobs, messages, uploads, outbox, now, issued>>

\* Step 2: SELECT the job's messages in creation order, respond with them
ListMessagesRead(s, rows) ==
    /\ reqs[s].kind = "listMessages" /\ reqs[s].pc = "read"
    /\ rows \in OrderByCreatedAt(messages,
                                 SelectMessagesOfJob(messages, users, reqs[s].jobId))
    /\ Finish(s, Resp("listMessages", 200, "", rows, reqs[s].uid, reqs[s].jobId))
    /\ UNCHANGED <<users, jobs, messages, uploads, outbox, now, issued>>

----------------------------------------------------------------------------
(* server.js: PUT /profile *)

\* let finalBio = (bio === '' || bio === undefined) ? null : bio
FinalBio(bio) == IF bio = "" \/ bio = Undefined THEN NullStr ELSE bio

\* UPDATE users SET bio = ? WHERE id = ?
UpdateUserBio(tbl, id, bio) ==
    [u \in 1..Len(tbl) |-> IF u = id THEN [tbl[u] EXCEPT !.bio = bio] ELSE tbl[u]]

\* UPDATE users SET bio = ?, avatar_url = ? WHERE id = ?
UpdateUserBioAvatar(tbl, id, bio, url) ==
    [u \in 1..Len(tbl) |->
        IF u = id THEN [tbl[u] EXCEPT !.bio = bio, !.avatar_url = url] ELSE tbl[u]]

\* What the avatar storage can answer: with no file there is no upload
UploadOutcomes(file) == IF file = Undefined THEN {FALSE} ELSE BOOLEAN

\* Step 1: token; with a file the upload to the avatar storage (which may
\* fail); without a file the no-op answer or the UPDATE of the bio
ProfileStart(s, header, bio, file, uploaded) ==
    LET auth == AuthenticateToken(header, now) IN
    /\ FreeSlot(s)
    /\ IF auth.status /= 200
       THEN /\ last' = Resp("profile", auth.status, auth.error, NoBody, auth.user.id, NULL)
            /\ UNCHANGED <<users, uploads, reqs>>
       ELSE IF file /= Undefined
            THEN IF uploaded
                 THEN /\ uploads < MaxUploads
                      /\ uploads' = uploads + 1
                      /\ reqs' = [reqs EXCEPT ![s] =
                                    [Idle EXCEPT !.kind = "profile", !.pc = "update",
                                                 !.uid = auth.user.id,
                                                 !.bio = FinalBio(bio),
                                                 !.aux = uploads + 1]]
                      /\ UNCHANGED <<users, last>>
                 ELSE /\ last' = Resp("profile", 500, "Erro ao atualizar perfil", NoBody, auth.user.id, NULL)
                      /\ UNCHANGED <<users, uploads, reqs>>
            ELSE IF FinalBio(bio) = NullStr
                 THEN /\ last' = Resp("profile", 200,
                                      "Nenhum dado fornecido para atualizacao.", NoBody, auth.user.id, NULL)
                      /\ UNCHANGED <<users, uploads, reqs>>
                 ELSE /\ users' = UpdateUserBio(users, auth.user.id, FinalBio(bio))
                      /\ last' = Resp("profile", 200, "Perfil atualizado com sucesso",
                                      NoBody, auth.user.id, NULL)
                      /\ UNCHANGED <<uploads, reqs>>
    /\ UNCHANGED <<jobs, messages, outbox, now, issued>>

\* Step 2 (after an upload): UPDATE bio and avatar_url, then 200
ProfileUpdate(s) ==
    /\ reqs[s].kind = "profile" /\ reqs[s].pc = "update"
    /\ users' = UpdateUserBioAvatar(users, reqs[s].uid, reqs[s].bio, reqs[s].aux)
    /\ Finish(s, Resp("profile", 200, "Perfil atualizado com sucesso", NoBody, reqs[s].uid, NULL))
    /\ UNCHANGED <<jobs, messages, uploads, outbox, now, issued>>

----------------------------------------------------------------------------
(* Specifications *)

NextAuth ==
    \/ \E s \in Slots, e \in Emails, p \in Passwords, r \in RoleInputs,
             c \in Salts :
          RegisterCheck(s, e, p, r, c)
    \/ \E s \in Slots, sent \in BOOLEAN : RegisterInsert(s, sent)
    \/ \E e \in Emails, p \in Passwords, id \in 0..Len(users) : Login(e, p, id)

NextJobs ==
    \/ \E h \in Headers : CreateJob(h)
    \/ ListOpenJobs
    \/ \E s \in Slots, h \in Headers, j \in JobIds : HireCheck(s, h, j)
    \/ \E s \in Slots : HireUpdate(s)

NextMsgs ==
    \/ \E s \in Slots, h \in Headers, j \in JobIds : HireCheck(s, h, j)
    \/ \E s \in Slots : HireUpdate(s)
    \/ \E s \in Slots, h \in Headers, j \in JobIds : SendMessageCheck(s, h, j)
    \/ \E s \in Slots : SendMessageInsert(s)
    \/ \E s \in Slots, h \in Headers, j \in JobIds : ListMessagesCheck(s, h, j)
    \/ \E s \in Slots, q \in UNION {[1..n -> 1..Len(messages)] : n \in 0..Len(messages)} :
          ListMessagesRead(s, q)
    \/ Tick

NextProfile ==
    \/ \E s \in Slots, h \in Headers, b \in BioInputs, f \in FileInputs :
          \E up \in UploadOutcomes(f) : ProfileStart(s, h, b, f, up)
    \/ \E s \in Slots : ProfileUpdate(s)

Next == NextAuth \/ NextJobs \/ NextMsgs \/ NextProfile

\* The server started on an empty database
Spec == Init /\ [][Next]_vars

\* Registration and login on an empty database, requests overlapping
SpecAuth == Init /\ [][NextAuth]_vars

\* A database in which a client and two freelancers have registered and
\* logged in at time 0
SeedUsers ==
    <<NewUserRow("c@x", BcryptHash("pw1", "salt1"), "client"),
      NewUserRow("f@x", BcryptHash("pw1", "salt1"), "freelancer"),
      NewUserRow("g@x", BcryptHash("pw1", "salt1"), "freelancer")>>

SeedTokens == {JwtSign(i, SeedUsers[i].role, JWT_SECRET, 0) : i \in 1..Len(SeedUsers)}

InitSeed ==
    /\ users = SeedUsers
    /\ messages = <<>>
    /\ uploads = 0
    /\ outbox = {}
    /\ now = 0
    /\ issued = SeedTokens
    /\ last = NoResp

\* Job posting, listing and hiring, requests overlapping
InitJobs ==
    /\ InitSeed
    /\ jobs = <<>>
    /\ reqs = [s \in 1..MaxInflight |-> Idle]

SpecJobs == InitJobs /\ [][NextJobs]_vars

\* The client has posted two jobs, the second of which a freelancer has taken
SeedJobs ==
    <<NewJobRow(1), UpdateJobHire(<<NewJobRow(1)>>, 1, 3)[1]>>

\* Hiring and messaging on the posted jobs, one request at a time
InitMsgs ==
    /\ InitSeed
    /\ jobs = SeedJobs
    /\ reqs = <<Idle>>

SpecMsgs == InitMsgs /\ [][NextMsgs]_vars

\* Every protected route, one request at a time, two clock steps after the
\* client logged in for the first time: that token has expired, the tokens
\* the client and a freelancer got one clock step later have not
NextGate ==
    \/ \E h \in Headers : CreateJob(h)
    \/ \E s \in Slots, h \in Headers, j \in JobIds : HireCheck(s, h, j)
    \/ \E s \in Slots : HireUpdate(s)
    \/ \E s \in Slots, h \in Headers, j \in JobIds : SendMessageCheck(s, h, j)
    \/ \E s \in Slots : SendMessageInsert(s)
    \/ \E s \in Slots, h \in Headers, j \in JobIds : ListMessagesCheck(s, h, j)
    \/ \E s \in Slots, q \in UNION {[1..n -> 1..Len(messages)] : n \in 0..Len(messages)} :
          ListMessagesRead(s, q)
    \/ NextProfile

GateTokens ==
    {JwtSign(1, SeedUsers[1].role, JWT_SECRET, 0),
     JwtSign(1, SeedUsers[1].role, JWT_SECRET, ClockStep),
     JwtSign(2, SeedUsers[2].role, JWT_SECRET, ClockStep)}

InitGate ==
    /\ users = SeedUsers
    /\ jobs = <<>>
    /\ messages = <<>>
    /\ uploads = 0
    /\ outbox = {}
    /\ now = 2 * ClockStep
    /\ issued = GateTokens
    /\ reqs = <<Idle>>
    /\ last = NoResp

SpecGate == InitGate /\ [][NextGate]_vars

\* Hiring and messaging on one open job of the client, requests overlapping
NextChat ==
    \/ \E s \in Slots, h \in Headers, j \in JobIds : HireCheck(s, h, j)
    \/ \E s \in Slots : HireUpdate(s)
    \/ \E s \in Slots, h \in Headers, j \in JobIds : SendMessageCheck(s, h, j)
    \/ \E s \in Slots : SendMessageInsert(s)

InitChat ==
    /\ InitSeed
    /\ jobs = <<NewJobRow(1)>>
    /\ reqs = [s \in 1..MaxInflight |-> Idle]

SpecChat == InitChat /\ [][NextChat]_vars

\* Profile updates of the registered users, requests overlapping
InitProfile ==
    /\ InitSeed
    /\ jobs = <<>>
    /\ reqs = [s \in 1..MaxInflight |-> Idle]

SpecProfile == InitProfile /\ [][NextProfile]_vars

\* Registration, login and the hire route that mails the client, on a
\* database with the client and one open job, requests overlapping
NextNotify ==
    \/ \E s \in Slots, e \in Emails, p \in Passwords, r \in RoleInputs,
             c \in Salts :
          RegisterCheck(s, e, p, r, c)
    \/ \E s \in Slots, sent \in BOOLEAN : RegisterInsert(s, sent)
    \/ \E e \in Emails, p \in Passwords, id \in 0..Len(users) : Login(e, p, id)
    \/ \E s \in Slots, h \in Headers, j \in JobIds : HireCheck(s, h, j)
    \/ \E s \in Slots, sent \in BOOLEAN : HireUpdateEarlier(s, sent)

InitNotify ==
    /\ users = <<SeedUsers[1]>>
    /\ jobs = <<NewJobRow(1)>>
    /\ messages = <<>>
    /\ uploads = 0
    /\ outbox = {}
    /\ now = 0
    /\ issued = {}
    /\ reqs = [s \in 1..MaxInflight |-> Idle]
    /\ last = NoResp

SpecNotify == InitNotify /\ [][NextNotify]_vars

----------------------------------------------------------------------------
(* Properties of the job lifecycle, checked under SpecJobs *)

\* The caller a header authenticates as, NoUser when the middleware rejects it
Caller(header) == AuthenticateToken(header, now).user

Authenticated(header) == AuthenticateToken(header, now).status = 200

\* C1: a job's freelancer_id, once set, is never overwritten with another
\* freelancer's id, and a hire that completes on a job that already has a
\* freelancer is not answered with success (so at most one hire per job
\* succeeds), whatever the interleaving of the hire requests.
C1_AtMostOneFreelancerPerJob ==
    [][/\ \A j \in 1..Len(jobs) :
             jobs[j].freelancer_id /= NULL
                => jobs'[j].freelancer_id = jobs[j].freelancer_id
       /\ \A s \in Slots :
             HireUpdate(s) /\ jobs[reqs[s].jobId].freelancer_id /= NULL
                => last'.status /= 200]_vars

\* freelancer_id is null exactly when the job is open and set exactly when it
\* is in progress
JobConsistent(job) ==
    /\ job.status \in {"open", "in_progress"}
    /\ (job.freelancer_id = NULL) <=> (job.status = "open")
    /\ (job.freelancer_id /= NULL) <=> (job.status = "in_progress")

\* C2: in every reachable state every job has a null freelancer_id exactly
\* when it is open and a non-null one exactly when it is in progress; a job
\* that createJob inserts is open with a null freelancer_id; a job in
\* progress never becomes open again.
C2_JobStateInvariant ==
    /\ \A j \in 1..Len(jobs) : JobConsistent(jobs[j])
    /\ [][/\ \A j \in 1..Len(jobs') : JobConsistent(jobs'[j])
          /\ \A j \in (Len(jobs) + 1)..Len(jobs') :
                jobs'[j].status = "open" /\ jobs'[j].freelancer_id = NULL
          /\ \A j \in 1..Len(jobs) :
                jobs[j].status = "in_progress" => jobs'[j].status = "in_progress"]_vars

\* A job was created and then hired: it is in progress with its freelancer,
\* next to a job that is still open
C2_Witness ==
    \E j, k \in 1..Len(jobs) :
        /\ jobs[j].status = "in_progress" /\ jobs[j].freelancer_id = 2
        /\ jobs[k].status = "open" /\ jobs[k].freelancer_id = NULL
        /\ last.kind = "hire" /\ last.status = 200 /\ last.jobId = j

\* C3: a hire request by a freelancer for a job id that does not exist, or
\* whose job is in progress when the request starts, is answered 404 and
\* changes no job (and leaves no update pending).
C3_HireUnavailableIs404 ==
    [][\A s \in Slots, h \in Headers, j \in JobIds :
          /\ HireCheck(s, h, j)
          /\ Authenticated(h) /\ Caller(h).role = "freelancer"
          /\ (j \notin 1..Len(jobs) \/ jobs[j].status = "in_progress")
          => /\ last'.kind = "hire" /\ last'.status = 404
             /\ last'.text = "Job nao disponivel"
             /\ jobs' = jobs
             /\ reqs' = reqs]_vars

\* A freelancer was answered 404 for a job that another freelancer holds
C3_Witness ==
    /\ last.kind = "hire" /\ last.status = 404
    /\ last.jobId \in 1..Len(jobs)
    /\ jobs[last.jobId].status = "in_progress"
    /\ last.uid /= NULL /\ jobs[last.jobId].freelancer_id /= last.uid

\* C4: createJob with an authenticated role other than client is answered 403
\* and inserts no job; hire with an authenticated role other than freelancer
\* is answered 403 and changes no job, whatever the job's state.
C4_RoleGates ==
    [][/\ \A h \in Headers :
             CreateJob(h) /\ Authenticated(h) /\ Caller(h).role /= "client"
             => /\ last'.kind = "createJob" /\ last'.status = 403
                /\ jobs' = jobs
       /\ \A s \in Slots, h \in Headers, j \in JobIds :
             HireCheck(s, h, j) /\ Authenticated(h) /\ Caller(h).role /= "freelancer"
             => /\ last'.kind = "hire" /\ last'.status = 403
                /\ jobs' = jobs
                /\ reqs' = reqs]_vars

\* A client was refused the hire of an open job, which stays open
C4_Witness ==
    /\ last.kind = "hire" /\ last.status = 403
    /\ last.uid /= NULL /\ users[last.uid].role = "client"
    /\ last.jobId \in 1..Len(jobs)
    /\ jobs[last.jobId].status = "open"

\* C10: listOpenJobs answers with exactly the jobs that are open when it
\* reads; a created job is open, and a job that is no longer open never
\* becomes open again, so it is in no later listing.
C10_ListOpenJobsExact ==
    [][/\ ListOpenJobs
          => /\ last'.kind = "listJobs" /\ last'.status = 200
             /\ last'.body = {j \in 1..Len(jobs) : jobs[j].status = "open"}
       /\ \A j \in (Len(jobs) + 1)..Len(jobs') : jobs'[j].status = "open"
       /\ \A j \in 1..Len(jobs) :
             jobs[j].status /= "open" => jobs'[j].status /= "open"]_vars

\* A listing taken after a hire: it holds the open job and not the hired one
C10_Witness ==
    /\ last.kind = "listJobs"
    /\ \E j, k \in 1..Len(jobs) :
          /\ jobs[j].status = "in_progress" /\ j \notin last.body
          /\ jobs[k].status = "open" /\ k \in last.body

----------------------------------------------------------------------------
(* Properties of registration and login, checked under SpecAuth *)

UniqueEmails ==
    \A i, k \in 1..Len(users) : i /= k => users[i].email /= users[k].email

\* C5: a register request for an email that is already stored is answered
\* with the conflict error and adds no user, and no two user rows ever share
\* an email, also when two registrations of one email overlap between the
\* existence check and the insert.
C5_EmailsUnique ==
    /\ UniqueEmails
    /\ [][/\ UniqueEmails'
          /\ \A s \in Slots, e \in Emails, p \in Passwords, r \in RoleInputs,
                   c \in Salts :
                RegisterCheck(s, e, p, r, c) /\ (\E i \in 1..Len(users) : users[i].email = e)
                => /\ last'.kind = "register" /\ last'.status = 400
                   /\ last'.text = "Email ja cadastrado"
                   /\ users' = users
                   /\ reqs' = reqs]_vars

\* The password was the one hashed into the stored value at registration
Verifies(password, hash) == \E c \in Salts : hash = BcryptHash(password, c)

\* C6: login for an email with no user is answered not-found, login with a
\* password that does not verify against the stored hash is answered
\* invalid-credential, and neither issues a token; a login that succeeds
\* issues a token for the server secret whose id and role are those of the
\* stored user, valid for 24 hours; a registration without a role stores the
\* role freelancer.
C6_LoginIssuesTokenOnlyForValidCredentials ==
    [][/\ \A e \in Emails, p \in Passwords, id \in 0..Len(users) :
             Login(e, p, id)
             => /\ (\A i \in 1..Len(users) : users[i].email /= e)
                   => /\ last'.status = 400 /\ last'.text = "Usuario nao encontrado"
                      /\ issued' = issued
                /\ (id /= NULL /\ ~Verifies(p, users[id].password))
                   => /\ last'.status = 400 /\ last'.text = "Senha incorreta"
                      /\ issued' = issued
                /\ issued' /= issued \/ last'.status = 200
                   => /\ id \in 1..Len(users) /\ users[id].email = e
                      /\ Verifies(p, users[id].password)
                      /\ last'.status = 200
                      /\ last'.body.id = id /\ last'.body.role = users[id].role
                      /\ last'.body.key = JWT_SECRET
                      /\ last'.body.exp = now + 24
                      /\ issued' = issued \cup {last'.body}
       /\ \A s \in Slots, e \in Emails, p \in Passwords, r \in RoleInputs, c \in Salts :
             RegisterCheck(s, e, p, r, c) /\ reqs'[s].kind = "register"
             => reqs'[s].role = (IF r \in {Undefined, ""} THEN "freelancer" ELSE r)
       /\ \A s \in Slots, sent \in BOOLEAN :
             RegisterInsert(s, sent)
             => /\ Len(users') = Len(users) + 1
                /\ users'[Len(users')].role = reqs[s].role
                /\ users'[Len(users')].email = reqs[s].email
                /\ users'[Len(users')].password = reqs[s].hash]_vars

\* A user has logged in and holds a token with the stored id and role, and a
\* login with the wrong password was refused after it
C6_Witness ==
    /\ last.kind = "login" /\ last.status = 400 /\ last.text = "Senha incorreta"
    /\ \E tok \in issued : tok.id \in 1..Len(users) /\ users[tok.id].role = "freelancer"

----------------------------------------------------------------------------
(* Properties of the access control, checked under SpecGate *)

\* The first step of a protected route for a request with this header
ProtectedRequest(h) ==
    \/ \E s \in Slots, b \in BioInputs, f \in FileInputs :
          \E up \in UploadOutcomes(f) : ProfileStart(s, h, b, f, up)
    \/ CreateJob(h)
    \/ \E s \in Slots, j \in JobIds : HireCheck(s, h, j)
    \/ \E s \in Slots, j \in JobIds : SendMessageCheck(s, h, j)
    \/ \E s \in Slots, j \in JobIds : ListMessagesCheck(s, h, j)

\* Everything the server stores, and the requests it has yet to finish
Stored == <<users, jobs, messages, uploads, outbox, reqs>>

\* C7: a request to a protected route that carries no token is answered 401;
\* one whose token is signed with another secret, or was issued 24 hours ago
\* or earlier, is answered 403; in both cases the handler does not run:
\* nothing stored changes and no request is left pending.
C7_MiddlewareRejectsBadTokens ==
    [][\A h \in Headers :
          /\ \/ last'.status = 401 /\ last'.text = "Acesso negado" /\ Stored' = Stored
             \/ ~(Len(h) < 2 /\ ProtectedRequest(h))
          /\ \/ last'.status = 403 /\ last'.text = "Token invalido" /\ Stored' = Stored
             \/ ~(/\ Len(h) >= 2
                  /\ (h[2].key /= JWT_SECRET \/ now - h[2].iat >= 24)
                  /\ ProtectedRequest(h))]_vars

\* A hire was refused for its token although the job is there and open
C7_Witness ==
    /\ last.kind = "hire" /\ last.status = 403 /\ last.text = "Token invalido"
    /\ last.jobId \in 1..Len(jobs)
    /\ jobs[last.jobId].status = "open"
    /\ \E tok \in issued : now - tok.iat >= 24

----------------------------------------------------------------------------
(* Properties of the messaging, checked under SpecMsgs *)

\* The user is neither the client nor the assigned freelancer of the job
NotParticipant(jobId, uid) ==
    \/ jobId \notin 1..Len(jobs)
    \/ jobs[jobId].client_id /= uid /\ jobs[jobId].freelancer_id /= uid

MessagesOfJob(jobId) == {m \in 1..Len(messages) : messages[m].job_id = jobId}

\* C9: listMessages by a caller who is neither the job's client nor its
\* assigned freelancer is answered 403; for a participant it goes on to read,
\* and the answer lists exactly the messages stored for that job, each once,
\* by non-decreasing creation time, and changes nothing.
C9_ListMessagesExact ==
    [][/\ \A s \in Slots, h \in Headers, j \in JobIds :
             ListMessagesCheck(s, h, j) /\ Authenticated(h)
             => IF NotParticipant(j, Caller(h).id)
                THEN /\ last'.kind = "listMessages" /\ last'.status = 403
                     /\ reqs' = reqs
                ELSE /\ reqs'[s].kind = "listMessages" /\ reqs'[s].jobId = j
                     /\ reqs'[s].uid = Caller(h).id
       /\ \A s \in Slots, q \in UNION {[1..n -> 1..Len(messages)] : n \in 0..Len(messages)} :
             ListMessagesRead(s, q)
             => /\ last'.kind = "listMessages" /\ last'.status = 200
                /\ last'.body = q
                /\ {q[i] : i \in 1..Len(q)} = MessagesOfJob(reqs[s].jobId)
                /\ Len(q) = Cardinality(MessagesOfJob(reqs[s].jobId))
                /\ \A i, k \in 1..Len(q) :
                      i < k => messages[q[i]].created_at <= messages[q[k]].created_at
                /\ messages' = messages]_vars

\* The freelancer of a job read its thread and got the two messages, one from
\* the client and one of their own, written at different times
C9_Witness ==
    /\ last.kind = "listMessages" /\ last.status = 200
    /\ Len(last.body) = 2
    /\ jobs[last.jobId].freelancer_id = last.uid
    /\ messages[last.body[1]].sender_id = jobs[last.jobId].client_id
    /\ messages[last.body[2]].sender_id = last.uid
    /\ messages[last.body[1]].created_at < messages[last.body[2]].created_at

----------------------------------------------------------------------------
(* Properties of hiring and messaging together, checked under SpecChat *)

\* The message is between the client and the assigned freelancer of its job
MessageConsistent(msg) ==
    /\ msg.job_id \in 1..Len(jobs)
    /\ jobs[msg.job_id].freelancer_id /= NULL
    /\ msg.receiver_id /= NULL
    /\ msg.sender_id /= msg.receiver_id
    /\ {msg.sender_id, msg.receiver_id} =
           {jobs[msg.job_id].client_id, jobs[msg.job_id].freelancer_id}

\* C11: in every reachable state every stored message belongs to a job that
\* has a freelancer, its sender is the job's client or the freelancer
\* currently assigned to it, and its receiver is non-null and is the other
\* one of the two, whatever the interleaving of hire and sendMessage.
C11_MessagesBetweenParticipants ==
    \A m \in 1..Len(messages) : MessageConsistent(messages[m])

----------------------------------------------------------------------------
(* Properties of the profile update, checked under SpecProfile *)

\* The row differs from the old one in at most bio and avatar_url
OnlyProfileFieldsChanged(old, new) ==
    [new EXCEPT !.bio = old.bio, !.avatar_url = old.avatar_url] = old

\* The step leaves every user row but that of `uid` as it was, and changes
\* at most bio and avatar_url of that one
ProfileFrame(uid) ==
    /\ Len(users') = Len(users)
    /\ \A u \in 1..Len(users) :
          IF u = uid THEN OnlyProfileFieldsChanged(users[u], users'[u])
                     ELSE users'[u] = users[u]

\* C12: updateProfile changes at most bio and avatar_url of the caller's row
\* and each of them only when it was supplied: with only a bio avatar_url
\* stays, with only an avatar file bio stays, with neither the row and the
\* avatar storage stay and the answer is a success; no other row and no
\* email, password hash or role changes.
C12_ProfileFrame ==
    [][/\ \A s \in Slots, h \in Headers, b \in BioInputs, f \in FileInputs :
             \A up \in UploadOutcomes(f) :
                ProfileStart(s, h, b, f, up) /\ Authenticated(h)
                => /\ ProfileFrame(Caller(h).id)
                   /\ f = Undefined
                      => users'[Caller(h).id].avatar_url = users[Caller(h).id].avatar_url
                   /\ (f = Undefined /\ FinalBio(b) = NullStr)
                      => /\ users' = users /\ uploads' = uploads
                         /\ last'.kind = "profile" /\ last'.status = 200
       /\ \A s \in Slots :
             ProfileUpdate(s)
             => /\ ProfileFrame(reqs[s].uid)
                /\ reqs[s].bio = NullStr
                   => users'[reqs[s].uid].bio = users[reqs[s].uid].bio]_vars

----------------------------------------------------------------------------
(* Properties of the notifications, checked under SpecNotify *)

\* C13: whether the outbound mail is sent or fails, a register request that
\* reached its INSERT ends with 201 and the new user row stored, and a hire
\* request that reached its UPDATE ends with 200 and the job in progress
\* with its caller as freelancer: the outcome of the send changes neither
\* the response nor the tables.
C13_NotificationsBestEffort ==
    [][\A s \in Slots :
          /\ (reqs[s].kind = "register" /\ reqs'[s].kind = "idle")
             => /\ last'.kind = "register" /\ last'.status = 201
                /\ users' = Append(users, NewUserRow(reqs[s].email, reqs[s].hash,
                                                     reqs[s].role))
                /\ jobs' = jobs
          /\ (reqs[s].kind = "hire" /\ reqs'[s].kind = "idle")
             => /\ last'.kind = "hire" /\ last'.status = 200
                /\ jobs' = UpdateJobHire(jobs, reqs[s].jobId, reqs[s].uid)
                /\ users' = users]_vars

\* A user registered and took the job; neither the welcome mail nor the mail
\* to the client went out, and the hire was answered 200
C13_Witness ==
    /\ last.kind = "hire" /\ last.status = 200
    /\ jobs[last.jobId].freelancer_id = last.uid
    /\ jobs[last.jobId].status = "in_progress"
    /\ last.uid \in 2..Len(users)
    /\ users[last.uid].email \notin outbox
    /\ users[jobs[last.jobId].client_id].email \notin outbox

====
